---- MODULE Spec2Model ----
(***************************************************************************)
(* Model of the Azure cost exporter: main.py (configuration validation)    *)
(* and app/exporter.py (MetricExporter: the polling loop, the fetch        *)
(* orchestration, the row-to-metric mapping and the Prometheus gauge it    *)
(* writes to).                                                             *)
(*                                                                         *)
(* Python dicts are TLA+ functions over their key set, Python lists are    *)
(* sequences (index 0 of Python is index 1 here).  Costs are small         *)
(* integers, on which float() is exact.                                    *)
(***************************************************************************)
EXTENDS Integers, Sequences, FiniteSets, TLC

\* ---------------------------------------------------------------- bounds
\* Largest number of rows one billing API response carries.
MaxRows == 2

\* ------------------------------------------------------- python helpers
\* dict.update: keys of g are added to f or overwrite it.
DictUpdate(f, g) ==
    [k \in (DOMAIN f) \cup (DOMAIN g) |-> IF k \in DOMAIN g THEN g[k] ELSE f[k]]

\* dict.get(key, default)
DictGet(f, k, default) == IF k \in DOMAIN f THEN f[k] ELSE default

\* float(result[0]); the costs of the model are integers, which float()
\* represents exactly.
float(x) == x

\* --------------------------------------------------------------- dates
Date(y, m, d) == [year |-> y, month |-> m, day |-> d]

IsLeap(y) == (y % 4 = 0 /\ y % 100 # 0) \/ y % 400 = 0

DaysInMonth(y, m) ==
    IF m = 2 THEN (IF IsLeap(y) THEN 29 ELSE 28)
    ELSE IF m \in {4, 6, 9, 11} THEN 30 ELSE 31

\* end_date - relativedelta(days=1)
MinusOneDay(dt) ==
    IF dt.day > 1 THEN Date(dt.year, dt.month, dt.day - 1)
    ELSE IF dt.month > 1
         THEN Date(dt.year, dt.month - 1, DaysInMonth(dt.year, dt.month - 1))
         ELSE Date(dt.year - 1, 12, 31)

\* int(dt.strftime("%Y%m%d"))
strftime_int(dt) == dt.year * 10000 + dt.month * 100 + dt.day

\* The day datetime.today() returns in the model: the first of March of a
\* leap year, so that the day before it is in another month.
Todays == {Date(2024, 3, 1)}

\* The dates a returned row may carry: the two days of the queried window
\* (from 2024-02-29 to 2024-03-01).
RowDates == {20240229, 20240301}

\* ------------------------------------------------------ configurations
Acct(t, s, e) == [TenantId |-> t, Subscription |-> s, EnvironmentName |-> e]
AcctNoEnv(t, s) == [TenantId |-> t, Subscription |-> s]
Cred(s) == [SubscriptionId |-> s, client_id |-> "id", client_secret |-> "secret"]

\* group_by section of the configuration.  A group is reduced to its
\* label_name: its type and name only travel to the billing API.
GroupBy(en, gs, men, th, tag) ==
    [enabled |-> en, groups |-> gs,
     merge_minor_cost |-> [enabled |-> men, threshold |-> th, tag_value |-> tag]]

Team == [label_name |-> "Team"]
Svc == [label_name |-> "Svc"]

GB_Off == GroupBy(FALSE, <<Team>>, FALSE, 5, "other")
GB_NoMerge == GroupBy(TRUE, <<Team>>, FALSE, 5, "other")
GB_Merge == GroupBy(TRUE, <<Team>>, TRUE, 5, "other")
GB_Merge2 == GroupBy(TRUE, <<Team, Svc>>, TRUE, 5, "other")

Config(ts, ss, gb) == [targets |-> ts, secrets |-> ss, group_by |-> gb]

\* Two targets share tenant T1, a second tenant follows.
Cfg_SharedTenant ==
    Config(<<Acct("T1", "S1", "prod"), Acct("T1", "S2", "dev"), Acct("T2", "S3", "stg")>>,
           [t \in {"T1", "T2"} |-> IF t = "T1" THEN <<Cred("S1"), Cred("S2")>>
                                             ELSE <<Cred("S3")>>],
           GB_Off)

\* S2 is declared twice, S3 is only in the secrets, S1 only in the targets.
Cfg_Undeclared ==
    Config(<<Acct("T1", "S1", "prod"), Acct("T1", "S2", "dev"), Acct("T1", "S2", "stg")>>,
           [t \in {"T1"} |-> <<Cred("S2"), Cred("S3")>>],
           GB_Merge)

\* The target carries no EnvironmentName key.
Cfg_NoEnv ==
    Config(<<AcctNoEnv("T1", "S1")>>,
           [t \in {"T1"} |-> <<Cred("S3"), Cred("S1")>>],
           GB_Merge)

\* One subscription, two groups.
Cfg_TwoGroups ==
    Config(<<Acct("T1", "S1", "prod")>>, [t \in {"T1"} |-> <<Cred("S1")>>], GB_Merge2)

\* Grouping without merging.
Cfg_NoMerge ==
    Config(<<Acct("T1", "S1", "prod")>>, [t \in {"T1"} |-> <<Cred("S1")>>], GB_NoMerge)

\* Two targets share the tenant, only the first has credentials.
Cfg_Pair ==
    Config(<<Acct("T1", "S1", "prod"), Acct("T1", "S2", "dev")>>,
           [t \in {"T1"} |-> <<Cred("S1")>>],
           GB_Off)

\* Rejected by main.py: tenant T3 has no secrets.
Cfg_NoSecrets ==
    Config(<<Acct("T1", "S1", "prod"), Acct("T3", "S5", "dev")>>,
           [t \in {"T1"} |-> <<Cred("S1")>>],
           GB_Off)

\* Rejected by main.py: the targets do not share one key set.
Cfg_MixedKeys ==
    Config(<<Acct("T1", "S1", "prod"), AcctNoEnv("T1", "S2")>>,
           [t \in {"T1"} |-> <<Cred("S1"), Cred("S2")>>],
           GB_Off)

\* Candidate configuration / secret file pairs handed to main.py.
CandidateConfigs ==
    {Cfg_SharedTenant, Cfg_Undeclared, Cfg_NoEnv, Cfg_TwoGroups, Cfg_NoMerge,
     Cfg_Pair, Cfg_NoSecrets, Cfg_MixedKeys}

\* get_configs: the validation a configuration passes before the exporter
\* is constructed.
get_configs_ok(c) ==
    /\ Len(c.targets) # 0
    /\ {"TenantId", "Subscription"} \subseteq DOMAIN c.targets[1]
    /\ \A i \in 2..Len(c.targets) : DOMAIN c.targets[i] = DOMAIN c.targets[1]
    /\ \A i \in 1..Len(c.targets) :
          /\ c.targets[i].TenantId \in DOMAIN c.secrets
          /\ \A j \in 1..Len(c.secrets[c.targets[i].TenantId]) :
                {"SubscriptionId", "client_id", "client_secret"}
                    \subseteq DOMAIN c.secrets[c.targets[i].TenantId][j]

Configs == {c \in CandidateConfigs : get_configs_ok(c)}

\* ---------------------------------------------------------------- state
VARIABLES
    cfg,                \* config and secrets handed to MetricExporter
    pc,                 \* position of the single thread of control
    processed_tenants,  \* fetch's local set
    tIdx,               \* index of azure_account in self.targets
    sIdx,               \* index of sub in self.secrets[tenant_id]
    end_date,           \* datetime.today() of the query in progress
    rowsLeft,           \* rows of cost_response["rows"] still to iterate
    sink,               \* azure_daily_cost_usd: label set -> value
    error,              \* exception that left run_metrics_loop, if any
    passes,             \* history: tenant-level passes of this cycle
    queries,            \* history: billing queries of this cycle per record
    failed,             \* history: records whose query failed this cycle
    last,               \* history: what the last iterated row led to
    subQual,            \* history: date-qualifying rows of this response
    subMinor,           \* history: those with 0 < cost < threshold
    subMinorSum,        \* history: the sum of their costs
    subWritten          \* history: label sets written for this response

vars == <<cfg, pc, processed_tenants, tIdx, sIdx, end_date, rowsLeft,
          sink, error, passes, queries, failed, last, subQual, subMinor,
          subMinorSum, subWritten>>

subHist == <<subQual, subMinor, subMinorSum, subWritten>>
cycleHist == <<passes, queries, failed>>

NoCall == [kind |-> "none"]
\* end_date outside the handling of a response (the local is not read there).
NoDate == Date(0, 0, 0)
NoSink == [l \in {} |-> 0]

\* ------------------------------------------------------ MetricExporter
targets == cfg.targets
secrets == cfg.secrets
group_by == cfg.group_by
groups == group_by.groups
merge_minor_cost == group_by.merge_minor_cost

\* fetch, lines 125 and 133: the tenant and the subscription being handled.
tenant_id == targets[tIdx].TenantId
subscription_id == secrets[tenant_id][sIdx].SubscriptionId

\* __init__: the label names the gauge is registered with.
self_labels ==
    (DOMAIN targets[1]) \cup {"ChargeType"}
        \cup (IF group_by.enabled
              THEN {groups[i].label_name : i \in 1..Len(groups)}
              ELSE {})

\* init_azure_client: the credentials record found, or the ValueError raised.
init_azure_client(tid, sid) ==
    LET match == {j \in 1..Len(secrets[tid]) :
                     secrets[tid][j].SubscriptionId = sid}
    IN  IF match = {} THEN "ValueError" ELSE "client"

\* fetch, lines 136-144: the working copy of the account for one subscription.
current_azure_account(azure_account, sid) ==
    LET copy == DictUpdate(azure_account, [Subscription |-> sid])
        match == {i \in 1..Len(targets) :
                     DictGet(targets[i], "Subscription", "") = sid}
        first == CHOOSE i \in match : \A k \in match : i <= k
    IN  IF match = {} THEN copy
        ELSE DictUpdate(copy,
                 [EnvironmentName |-> DictGet(targets[first], "EnvironmentName", "DefaultEnv")])

\* expose_metrics, lines 97-99: group label name -> the row's value for it.
RECURSIVE group_key_values(_, _)
group_key_values(result, n) ==
    IF n = 0 THEN [k \in {} |-> ""]
    ELSE DictUpdate(group_key_values(result, n - 1),
                    [k \in {groups[n].label_name} |-> result[n + 2]])

\* expose_metrics, lines 110-112: every group label set to tag_value.
merged_key_values ==
    [k \in {groups[i].label_name : i \in 1..Len(groups)} |-> merge_minor_cost.tag_value]

\* is_minor with the threshold itself merged too.
is_minor_inclusive(cost) ==
    merge_minor_cost.enabled /\ cost <= merge_minor_cost.threshold

\* expose_metrics, line 101: whether the row takes the merged-minor branch.
is_minor(cost) ==
    merge_minor_cost.enabled /\ cost < merge_minor_cost.threshold

\* expose_metrics: the write one call issues to the gauge, if any.
\* merged_minor_cost is a local of the call: it starts at 0 for every row.
expose_metrics(azure_account, result) ==
    LET cost == float(result[1])
        labels == DictUpdate([ChargeType |-> "ActualCost"], azure_account)
    IN  IF group_by.enabled
        THEN LET gkv == group_key_values(result, Len(groups))
                 merged_minor_cost == IF is_minor(cost) THEN 0 + cost ELSE 0
             IN  IF ~is_minor(cost)
                 THEN [kind |-> "individual", labels |-> DictUpdate(labels, gkv),
                       value |-> cost]
                 ELSE IF merged_minor_cost > 0
                      THEN [kind |-> "merged",
                            labels |-> DictUpdate(labels, merged_key_values),
                            value |-> merged_minor_cost]
                      ELSE [kind |-> "nowrite", labels |-> labels, value |-> 0]
        ELSE [kind |-> "individual", labels |-> labels, value |-> cost]

\* Gauge.labels(**labels): accepted only with exactly the registered names.
GaugeLabelsOk(labels) == DOMAIN labels = self_labels

\* GaugeSet on a registry that forgets every other label set.
GaugeSet_clearing(s, labels, value) == [l \in {labels} |-> value]

\* Gauge.labels(**labels).set(value): sets that label set's value.
GaugeSet(s, labels, value) ==
    [l \in (DOMAIN s) \cup {labels} |-> IF l = labels THEN value ELSE s[l]]

\* date_filter_passes comparing with the end date of the window.
date_filter_end_date(result, start_date) == result[2] = strftime_int(end_date)

\* fetch, line 156: the row is kept when its date is the start date.
date_filter_passes(result, start_date) == result[2] = strftime_int(start_date)

\* fetch, line 122
new_processed_tenants == {}

\* mark_processed that forgets the tenant.
mark_processed_forgotten(p, t) == p

\* fetch, line 165
mark_processed(p, t) == p \cup {t}

\* on_HttpResponseError leaving the loop over the tenant's records (break).
on_HttpResponseError_break(s) == Len(secrets[tenant_id]) + 1

\* fetch, lines 160-162: continue with the next record of the tenant.
on_HttpResponseError(s) == s + 1

\* after_sleep of a loop that runs once.
after_sleep_exit == "stopped"

\* run_metrics_loop, lines 33-35: after the sleep the loop calls fetch again.
after_sleep == "start"

\* ------------------------------------------------------------ billing API
Costs == {0, 2, 3, 5}
GroupValues == {"A", "other"}

\* Rows the API may return: [cost, date, group values...].
Rows ==
    LET n == IF group_by.enabled THEN Len(groups) ELSE 0
    IN  {<<c, d>> \o g : c \in Costs, d \in RowDates, g \in [1..n -> GroupValues]}

\* ------------------------------------------------------------- actions
CurrentAccount == current_azure_account(targets[tIdx], subscription_id)

Init ==
    /\ cfg \in Configs
    /\ pc = "start"
    /\ processed_tenants = {}
    /\ tIdx = 1
    /\ sIdx = 1
    /\ end_date = NoDate
    /\ rowsLeft = 0
    /\ sink = NoSink
    /\ error = "none"
    /\ passes = [t \in DOMAIN cfg.secrets |-> 0]
    /\ queries = [t \in DOMAIN cfg.secrets |-> [j \in 1..Len(cfg.secrets[t]) |-> 0]]
    /\ failed = {}
    /\ last = NoCall
    /\ subQual = 0
    /\ subMinor = 0
    /\ subMinorSum = 0
    /\ subWritten = {}

\* run_metrics_loop calls fetch: line 122.
Fetch ==
    /\ pc = "start"
    /\ pc' = "targets"
    /\ processed_tenants' = new_processed_tenants
    /\ tIdx' = 1
    /\ sIdx' = 1
    /\ passes' = [t \in DOMAIN secrets |-> 0]
    /\ queries' = [t \in DOMAIN secrets |-> [j \in 1..Len(secrets[t]) |-> 0]]
    /\ failed' = {}
    /\ UNCHANGED <<cfg, end_date, rowsLeft, sink, error, last, subHist>>

\* for azure_account in self.targets: the tenant was processed already.
SkipTenant ==
    /\ pc = "targets"
    /\ tIdx <= Len(targets)
    /\ tenant_id \in processed_tenants
    /\ tIdx' = tIdx + 1
    /\ UNCHANGED <<cfg, pc, processed_tenants, sIdx, end_date, rowsLeft,
                   sink, error, cycleHist, last, subHist>>

\* for azure_account in self.targets: a tenant not processed yet; line 132
\* reads self.secrets[tenant_id].
EnterTenant ==
    /\ pc = "targets"
    /\ tIdx <= Len(targets)
    /\ tenant_id \notin processed_tenants
    /\ IF tenant_id \in DOMAIN secrets
       THEN /\ pc' = "subs"
            /\ sIdx' = 1
            /\ passes' = [passes EXCEPT ![tenant_id] = @ + 1]
            /\ error' = error
       ELSE /\ pc' = "crashed"
            /\ error' = "KeyError"
            /\ UNCHANGED <<sIdx, passes>>
    /\ UNCHANGED <<cfg, processed_tenants, tIdx, end_date, rowsLeft, sink,
                   queries, failed, last, subHist>>

\* the loop over self.targets is exhausted: fetch returns, the loop sleeps.
FetchReturn ==
    /\ pc = "targets"
    /\ tIdx > Len(targets)
    /\ pc' = "sleep"
    /\ UNCHANGED <<cfg, processed_tenants, tIdx, sIdx, end_date, rowsLeft,
                   sink, error, cycleHist, last, subHist>>

\* the loop over self.secrets[tenant_id] is exhausted: line 165.
TenantDone ==
    /\ pc = "subs"
    /\ sIdx > Len(secrets[tenant_id])
    /\ processed_tenants' = mark_processed(processed_tenants, tenant_id)
    /\ tIdx' = tIdx + 1
    /\ pc' = "targets"
    /\ UNCHANGED <<cfg, sIdx, end_date, rowsLeft, sink, error, cycleHist,
                   last, subHist>>

\* lines 133-152 for one credential record, the query raising
\* HttpResponseError: logged, then continue.
QueryFails ==
    /\ pc = "subs"
    /\ sIdx <= Len(secrets[tenant_id])
    /\ IF init_azure_client(tenant_id, subscription_id) = "ValueError"
       THEN /\ pc' = "crashed"
            /\ error' = "ValueError"
            /\ UNCHANGED <<sIdx, end_date, queries, failed>>
       ELSE /\ queries' = [queries EXCEPT ![tenant_id][sIdx] = @ + 1]
            /\ failed' = failed \cup {<<tenant_id, sIdx>>}
            /\ sIdx' = on_HttpResponseError(sIdx)
            /\ UNCHANGED <<pc, error, end_date>>
    /\ UNCHANGED <<cfg, processed_tenants, tIdx, rowsLeft, sink, passes,
                   last, subHist>>

\* lines 133-155 for one credential record, the query returning n rows.
QueryOk ==
    /\ pc = "subs"
    /\ sIdx <= Len(secrets[tenant_id])
    /\ IF init_azure_client(tenant_id, subscription_id) = "ValueError"
       THEN /\ pc' = "crashed"
            /\ error' = "ValueError"
            /\ UNCHANGED <<end_date, rowsLeft, queries>>
       ELSE /\ \E today \in Todays : end_date' = today
            /\ \E n \in 0..MaxRows : rowsLeft' = n
            /\ queries' = [queries EXCEPT ![tenant_id][sIdx] = @ + 1]
            /\ pc' = "rows"
            /\ error' = error
    /\ subQual' = 0
    /\ subMinor' = 0
    /\ subMinorSum' = 0
    /\ subWritten' = {}
    /\ last' = NoCall
    /\ UNCHANGED <<cfg, processed_tenants, tIdx, sIdx, sink, passes, failed>>

\* lines 155-158 for one row of the response.  The rows of the response
\* are drawn as the loop reaches them: nothing in the loop reads a row
\* before its turn.
ExposeRow ==
    /\ pc = "rows"
    /\ rowsLeft > 0
    /\ \E result \in Rows :
          LET start_date == MinusOneDay(end_date)
              w == expose_metrics(CurrentAccount, result)
              minor == group_by.enabled /\ w.kind = "merged"
          IN  IF ~date_filter_passes(result, start_date)
              THEN /\ last' = [kind |-> "filtered", row |-> result]
                   /\ rowsLeft' = rowsLeft - 1
                   /\ UNCHANGED <<pc, sink, error, subHist>>
              ELSE /\ last' = [kind |-> w.kind, row |-> result,
                               labels |-> w.labels, value |-> w.value]
                   /\ subQual' = subQual + 1
                   /\ subMinor' = subMinor + (IF minor THEN 1 ELSE 0)
                   /\ subMinorSum' = subMinorSum + (IF minor THEN w.value ELSE 0)
                   /\ IF w.kind = "nowrite"
                      THEN /\ rowsLeft' = rowsLeft - 1
                           /\ UNCHANGED <<pc, sink, error, subWritten>>
                      ELSE IF GaugeLabelsOk(w.labels)
                           THEN /\ sink' = GaugeSet(sink, w.labels, w.value)
                                /\ subWritten' = subWritten \cup {w.labels}
                                /\ rowsLeft' = rowsLeft - 1
                                /\ UNCHANGED <<pc, error>>
                           ELSE /\ pc' = "crashed"
                                /\ error' = "ValueError"
                                /\ UNCHANGED <<rowsLeft, sink, subWritten>>
    /\ UNCHANGED <<cfg, processed_tenants, tIdx, sIdx, end_date, cycleHist>>

\* the rows of the response are exhausted: on to the next record.
RowsDone ==
    /\ pc = "rows"
    /\ rowsLeft = 0
    /\ pc' = "subs"
    /\ sIdx' = sIdx + 1
    /\ end_date' = NoDate
    /\ last' = NoCall
    /\ subQual' = 0
    /\ subMinor' = 0
    /\ subMinorSum' = 0
    /\ subWritten' = {}
    /\ UNCHANGED <<cfg, processed_tenants, tIdx, rowsLeft, sink, error,
                   cycleHist>>

\* time.sleep(self.polling_interval_seconds) returns.
Sleep ==
    /\ pc = "sleep"
    /\ pc' = after_sleep
    /\ UNCHANGED <<cfg, processed_tenants, tIdx, sIdx, end_date, rowsLeft,
                   sink, error, cycleHist, last, subHist>>

Next ==
    \/ Fetch
    \/ SkipTenant
    \/ EnterTenant
    \/ FetchReturn
    \/ TenantDone
    \/ QueryFails
    \/ QueryOk
    \/ ExposeRow
    \/ RowsDone
    \/ Sleep

Spec == Init /\ [][Next]_vars

\* The program is one thread that always takes its next step: the billing
\* call returns or raises and the sleep ends.
\* The progress of the loop is explored on the two smallest configurations.
LiveInit == Init /\ cfg \in {Cfg_NoEnv, Cfg_Pair}

LiveSpec == LiveInit /\ [][Next]_vars /\ WF_vars(Next)

\* ------------------------------------------------- notions of the claims
GroupingMerge == group_by.enabled /\ merge_minor_cost.enabled

\* The last iterated row passed the date filter and reached expose_metrics.
Mapped == last.kind \in {"individual", "merged", "nowrite"}

\* expose_metrics issued a write to the gauge for the last iterated row.
Wrote == last.kind \in {"individual", "merged"}

GroupLabelNames == {groups[i].label_name : i \in 1..Len(groups)}

\* Group label name -> the value the last iterated row carries for it.
OwnGroupValues ==
    [k \in GroupLabelNames |->
        LET i == CHOOSE j \in 1..Len(groups) :
                    /\ groups[j].label_name = k
                    /\ \A m \in 1..Len(groups) : groups[m].label_name = k => m <= j
        IN  last.row[i + 2]]

\* The label set of the account being fetched with the given group values.
AccountLabels(gv) ==
    [k \in (DOMAIN CurrentAccount) \cup {"ChargeType"} \cup (DOMAIN gv) |->
        IF k \in DOMAIN gv THEN gv[k]
        ELSE IF k \in DOMAIN CurrentAccount THEN CurrentAccount[k]
        ELSE "ActualCost"]

TagGroupValues == [k \in GroupLabelNames |-> merge_minor_cost.tag_value]

ListedTenants == {targets[i].TenantId : i \in 1..Len(targets)}

AllQueriedOnce(t) == \A j \in 1..Len(secrets[t]) : queries[t][j] = 1

\* C1: with grouping and merging enabled, when all N >= 1 date-qualifying
\* rows of one response have 0 < cost < threshold, the response leaves
\* exactly one written label set, with every group label equal to tag_value
\* and the sum of the N costs as its value.
C1_MinorRowsSummed ==
    (GroupingMerge /\ pc = "rows" /\ rowsLeft = 0 /\ subQual >= 1 /\ subMinor = subQual)
        => /\ subWritten = {AccountLabels(TagGroupValues)}
           /\ sink[AccountLabels(TagGroupValues)] = subMinorSum

\* C2, as claimed: a date-qualifying row with cost >= threshold is written
\* under its own group label values; with cost < threshold no write is made
\* under its own group label values.
C2_NoWriteUnderOwnLabels ==
    (GroupingMerge /\ Mapped)
        => IF last.row[1] >= merge_minor_cost.threshold
           THEN /\ last.kind = "individual"
                /\ last.labels = AccountLabels(OwnGroupValues)
                /\ last.value = last.row[1]
           ELSE ~(Wrote /\ last.labels = AccountLabels(OwnGroupValues))

\* C2, amended: a date-qualifying row with cost >= threshold is written
\* individually under its own group label values; with cost < threshold it
\* is never written individually: the only write made for it is the merged
\* one (made when cost > 0, with that cost, every group label equal to
\* tag_value), so its own group label values are written only when they all
\* equal tag_value.
C2_MinorNeverIndividual ==
    (GroupingMerge /\ Mapped)
        => IF last.row[1] >= merge_minor_cost.threshold
           THEN /\ last.kind = "individual"
                /\ last.labels = AccountLabels(OwnGroupValues)
                /\ last.value = last.row[1]
           ELSE /\ last.kind # "individual"
                /\ Wrote <=> last.row[1] > 0
                /\ Wrote => /\ last.labels = AccountLabels(TagGroupValues)
                            /\ last.value = last.row[1]
                /\ (Wrote /\ last.labels = AccountLabels(OwnGroupValues))
                       => OwnGroupValues = TagGroupValues

\* a row whose cost is exactly the threshold was written individually
C2_Witness ==
    /\ GroupingMerge
    /\ last.kind = "individual"
    /\ last.row[1] = merge_minor_cost.threshold
    /\ pc = "rows"
    /\ sink[last.labels] = merge_minor_cost.threshold
    /\ OwnGroupValues # TagGroupValues

\* C3: a query that fails with HttpResponseError does not abort the cycle:
\* the step leaves the sink as it was and moves on to the next credential
\* record, a tenant is marked processed only with all its records queried,
\* and a cycle in which queries failed ends with every record of every
\* listed tenant queried.
C3_FailureDoesNotAbort ==
    /\ [][failed' # failed =>
            \/ failed' = {}
            \/ /\ sink' = sink
               /\ error' = "none"
               /\ pc' = "subs"
               /\ tIdx' = tIdx
               /\ sIdx' = sIdx + 1
               /\ processed_tenants' = processed_tenants]_vars
    /\ [](failed # {} =>
            /\ \A t \in processed_tenants : AllQueriedOnce(t)
            /\ pc = "sleep" => \A t \in ListedTenants : AllQueriedOnce(t)
            /\ pc \in {"subs", "rows"} =>
                  \A j \in 1..Len(secrets[tenant_id]) : j < sIdx => queries[tenant_id][j] = 1)

\* the first record of T1 failed, the later record of T1 and the later
\* tenant T2 were queried and wrote their points
C3_Witness ==
    /\ pc = "sleep"
    /\ failed = {<<"T1", 1>>}
    /\ Len(secrets["T1"]) = 2
    /\ "T2" \in ListedTenants
    /\ queries["T1"][2] = 1
    /\ queries["T2"][1] = 1
    /\ Cardinality(DOMAIN sink) = 2

\* C4: in a cycle no tenant gets a second pass and no credential record a
\* second query, and a cycle that ran to completion gave every listed
\* tenant exactly one pass and every credential record of it exactly one
\* query, whether the queries succeeded or failed.
C4_OnePassOneQuery ==
    /\ \A t \in DOMAIN secrets :
          /\ passes[t] <= 1
          /\ \A j \in 1..Len(secrets[t]) : queries[t][j] <= 1
    /\ pc = "sleep" =>
          \A t \in ListedTenants : passes[t] = 1 /\ AllQueriedOnce(t)

\* a completed cycle over three targets, two of them sharing a tenant, in
\* which one query failed
C4_Witness ==
    /\ pc = "sleep"
    /\ Len(targets) = 3
    /\ Cardinality(ListedTenants) = 2
    /\ Cardinality(failed) = 1
    /\ \A t \in ListedTenants : passes[t] = 1 /\ AllQueriedOnce(t)

\* C5: when some target account (T, S) has no credential record for S under
\* T, a fetch cycle never completes normally.
MissingCredentials ==
    \E i \in 1..Len(targets) :
        \/ targets[i].TenantId \notin DOMAIN secrets
        \/ init_azure_client(targets[i].TenantId, targets[i].Subscription) = "ValueError"

C5_MissingCredentialsFatal == MissingCredentials => pc # "sleep"

ExpectedEnvironmentName(s) ==
    LET match == {i \in 1..Len(targets) : targets[i].Subscription = s}
    IN  IF match = {} THEN "DefaultEnv"
        ELSE targets[CHOOSE i \in match : \A k \in match : i <= k].EnvironmentName

C7_EnvironmentNameResolved ==
    \A l \in DOMAIN sink :
        "EnvironmentName" \in DOMAIN l
            => l.EnvironmentName = ExpectedEnvironmentName(l.Subscription)

\* C8: the sink is only ever upserted: a step never removes a label set,
\* changes or adds at most the label set of the write it makes, and leaves
\* the written value in the sink.
C8_SinkUpsertOnly ==
    [][/\ \A l \in DOMAIN sink :
             /\ l \in DOMAIN sink'
             /\ sink'[l] # sink[l] =>
                   (rowsLeft' < rowsLeft /\ last'.kind \in {"individual", "merged"}
                        /\ l = last'.labels)
       /\ \A l \in DOMAIN sink' :
             l \notin DOMAIN sink =>
                   (rowsLeft' < rowsLeft /\ last'.kind \in {"individual", "merged"}
                        /\ l = last'.labels)
       /\ (rowsLeft' < rowsLeft /\ last'.kind \in {"individual", "merged"})
             => (last'.labels \in DOMAIN sink' /\ sink'[last'.labels] = last'.value)]_vars

\* a cycle in which every query failed has ended and the sink still holds
\* two points of an earlier cycle
C8_Witness ==
    /\ pc = "sleep"
    /\ \A t \in ListedTenants : \A j \in 1..Len(secrets[t]) : <<t, j>> \in failed
    /\ Cardinality(DOMAIN sink) >= 2

\* C9: the loop sleeps only after a fetch that handled every target, a
\* fetch starts only from the loop's call after the start or a sleep and
\* starts with an empty processed-tenant set at the first target, and
\* unless an error propagates a new cycle starts again and again.
CycleStart == pc = "targets" /\ tIdx = 1 /\ processed_tenants = {}

C9_SequentialUnendingLoop ==
    /\ [](pc = "sleep" =>
            /\ tIdx > Len(targets)
            /\ ListedTenants \subseteq processed_tenants)
    /\ [][(pc # "start" /\ pc' = "start") => pc = "sleep"]_vars
    /\ [][(pc = "start" /\ pc' # "start") => CycleStart']_vars
    /\ [][(pc # "targets" /\ pc' = "targets") => pc \in {"start", "subs"}]_vars
    /\ (pc = "sleep" ~> CycleStart)
    /\ ([]<>CycleStart \/ <>[](pc = "crashed"))

\* a later cycle begins: the sink already holds a point
C9_Witness == CycleStart /\ sink # NoSink

\* C10: every label set handed to the gauge has exactly the label names
\* the gauge was registered with.
C10_LabelNamesRegistered == Wrote => DOMAIN last.labels = self_labels

====
